---------------------------- MODULE Spec2Model ----------------------------
(***************************************************************************)
(* Model of src/gan.py: the GAN trainer (GAN.train) with its two training  *)
(* loops, and the diagnostic sampler (GAN._samples).                       *)
(*                                                                         *)
(* The TensorFlow runtime is not part of the source.  It is modelled by    *)
(* what the calls in gan.py rely on:                                       *)
(*   - a tf.Variable is a cell holding a value; a parameter set is the     *)
(*     ordered list of the cells of one scope;                             *)
(*   - session.run(fetches, feed) evaluates the fetched tensors from the   *)
(*     CURRENT values of the variables and the fed batches; nothing is     *)
(*     kept from one run to the next except the variables themselves       *)
(*     (parameters and optimizer slots);                                   *)
(*   - the loss and gradient tensors are functions of the parameter values *)
(*     and the fed batches; they are given by fixed integer-valued         *)
(*     stand-ins (LossD, LossG, GradD, GradG) that depend on every         *)
(*     argument the real tensors depend on;                                *)
(*   - Adam keeps per variable a first moment, and per optimizer a step    *)
(*     count.  With beta1 = 0.5 the moment m_t = (m_(t-1) + g_t) / 2 is    *)
(*     kept exactly as the integer 2^t * m_t.  The update is a step        *)
(*     against the sign of the moment (it is zero exactly when the moment  *)
(*     is zero); its magnitude, which needs the second moment, is not      *)
(*     modelled;                                                           *)
(*   - an apply op writes its variable in place.  compute_gradients gates  *)
(*     the gradients of one optimizer (GATE_OP), so an optimizer's own     *)
(*     backward pass reads its variables before they are written.  In      *)
(*     GAN.apply_gradients the generator's backward pass also reads the    *)
(*     discriminator variables, which apply_grad_d writes in the same run  *)
(*     with nothing ordering the two: which of them it reads as written    *)
(*     is a nondeterministic choice (the set seen in ApplyGradients);      *)
(*   - np.random is a seeded generator: a state that every sample call     *)
(*     advances and draws from (RngDraw, RngAdvance).                          *)
(***************************************************************************)
EXTENDS Integers, Sequences, FiniteSets, TLC

\* ------------------------------------------------------------- bounds
NumParams == 2
MaxSteps == 2
MaxSeed == 7
MaxLogEvery == 2
MaxNumPoints == 5
MaxBatchSize == 3

VARIABLES
    \* configuration (GAN.__init__)
    eg, num_steps, log_every, anim_path,
    \* control: position in GAN.train and the loop variable
    pc, step,
    \* TensorFlow variables: the three parameter sets, the optimizers' slots
    d_pre_params, d_params, g_params, adamM, adamT,
    \* np.random: the generator's state (s) and the sample calls made (n)
    rng,
    \* locals and attributes of GAN.train
    x, z, weightsD, weightsG, self_weightsD, loss_d, loss_g,
    \* outputs: the printed log lines, the frames, what the Visualizer got
    printed, anim_frames, shown,
    \* what the session runs evaluated: the gradients last fetched (and the
    \* parameter values they were evaluated at), the gradients the last apply
    \* ops consumed, the feeds of the last updates
    grad_fetched, grad_applied, feeds,
    \* GAN._samples
    s_pc, num_points, batch_size, s_i, db, g_out, runs_D1, runs_G

cfgVars == <<eg, num_steps, log_every, anim_path>>
tfVars == <<d_pre_params, d_params, g_params, adamM, adamT>>
localVars == <<x, z, weightsD, weightsG, self_weightsD, loss_d, loss_g>>
outVars == <<printed, anim_frames, shown>>
obsVars == <<grad_fetched, grad_applied, feeds>>
sampleVars == <<s_pc, num_points, batch_size, s_i, db, g_out, runs_D1, runs_G>>
trainVars == <<pc, step, rng, localVars, outVars, obsVars>>
vars == <<cfgVars, tfVars, trainVars, sampleVars>>

\* ------------------------------------------------------------ helpers
Pos == 1..NumParams
Optimizers == {"opt_d", "opt_g", "opt_d_min", "opt_g_min"}
NoPath == "None"
NoBatch == [id |-> -1, val |-> 0]
Zeros == [i \in Pos |-> 0]

RECURSIVE SumFrom(_, _)
SumFrom(s, k) == IF k > Len(s) THEN 0 ELSE s[k] + SumFrom(s, k + 1)

Sum(s) == SumFrom(s, 1)

RECURSIVE Pow2(_)
Pow2(n) == IF n = 0 THEN 1 ELSE 2 * Pow2(n - 1)

Sign(n) == IF n > 0 THEN 1 ELSE IF n < 0 THEN -1 ELSE 0

\* linear(): weights from the orthogonal initializer (non-zero, and fixed by
\* tf.set_random_seed), biases 0.  Odd positions stand for weights, even
\* positions for biases; the scopes are D_pre (0), Gen (1) and Disc (2).
InitParams(scope) ==
    [i \in Pos |-> IF i % 2 = 1 THEN 1 + ((scope + i) % 3) ELSE 0]

\* np.random, a seeded pseudo-random generator: what a sample call draws
\* (the batch is named by the call's number), and the generator after it.
RngDraw(r) == [id |-> r.n, val |-> (r.s \div 4) % 2]

RngAdvance(r) == [s |-> (5 * r.s + 3) % 16, n |-> r.n + 1]

\* ------------------------------------------------- losses and gradients
\* loss_d depends on D1 = D(x) and D2 = D(G(z)): on d, g, x and z.
LossD(d, g, xv, zv) == (Sum(d) + 2 * Sum(g) + xv + 2 * zv) % 3

\* loss_g depends on D2 = D(G(z)): on d, g and z.
LossG(d, g, zv) == (2 * Sum(d) + Sum(g) + zv) % 3

\* The chain rule: a gradient is the loss's derivative in the network's
\* output (-1, 0 or 1; 0 where the two terms of the loss balance or the
\* discriminator is flat) times the output's derivative in the parameter
\* (0 for a parameter behind inactive ReLU units).
\*
\* d(loss_d)/d(d_params[i]), evaluated at the parameter values (d, g) on the
\* batches (x, z).
GradD(i, d, g, xv, zv) ==
    (((Sum(d) + 2 * Sum(g) + xv + zv) % 3) - 1)
        * (((i + SumFrom(d, i + 1) + xv) % 3) - 1)

\* d(loss_g)/d(g_params[i]): the forward pass at (d, g) on z; the backward
\* pass runs through the whole discriminator, whose variables it reads as dB.
GradG(i, d, g, dB, zv) ==
    (((Sum(d) + Sum(g) + Sum(dB) + zv) % 3) - 1)
        * (((2 * i + SumFrom(g, i + 1) + zv) % 3) - 1)

\* AdamOptimizer(beta1 = 0.5): the first moment after one more gradient,
\* scaled by 2^t (t the number of updates made before this one).
AdamMoment(m, gr, t) == m + Pow2(t) * gr

\* The parameter after the Adam update: a step against the moment's sign.
AdamUpdate(p, m) == p - Sign(m)

\* ------------------------------------------------------ the apply ops
\* apply_grad_d / opt_d_min: the gradients of loss_d at (d, g) on (x, z), the
\* moments m and the update count t of the optimizer.  The result holds the
\* new parameters, the new moments and the gradients that were applied.
ApplyD(d, g, xv, zv, m, t) ==
    LET gr == [i \in Pos |-> GradD(i, d, g, xv, zv)]
        m1 == [i \in Pos |-> AdamMoment(m[i], gr[i], t)]
    IN [p  |-> [i \in Pos |-> AdamUpdate(d[i], m1[i])],
        m  |-> m1,
        gr |-> gr]

\* apply_grad_g / opt_g_min, the backward pass reading the discriminator
\* variables as dB.
ApplyG(d, g, dB, zv, m, t) ==
    LET gr == [i \in Pos |-> GradG(i, d, g, dB, zv)]
        m1 == [i \in Pos |-> AdamMoment(m[i], gr[i], t)]
    IN [p  |-> [i \in Pos |-> AdamUpdate(g[i], m1[i])],
        m  |-> m1,
        gr |-> gr]

\* The discriminator variables as read while apply_grad_d writes them: the
\* positions in seen already hold their new values.
ReadDuringApply(d, dNew, seen) ==
    [j \in Pos |-> IF j \in seen THEN dNew[j] ELSE d[j]]

\* session.run([self.grad_d, self.grad_g], feed): no variable is written, so
\* the backward pass reads the values of the forward pass.
FetchGradD(d, g, xv, zv) == [i \in Pos |-> GradD(i, d, g, xv, zv)]

FetchGradG(d, g, zv) == [i \in Pos |-> GradG(i, d, g, d, zv)]

\* session.run(self.d_params): the current values, in the set's order.
Snapshot(params) == [i \in 1..Len(params) |-> params[i]]

\* Mutant of Reassign: the snapshot aliases the live variables, so assigning
\* it back writes the current values.
ReassignAliased(params, values) == [i \in 1..Len(params) |-> params[i]]

\* assign_d / assign_g fed dict(zip(placeholders, values)): variable i is
\* assigned the value fed to placeholder i.
Reassign(params, values) == [i \in 1..Len(params) |-> values[i]]

\* Mutant of CopyWeights: the positions are off by one (cyclically).
CopyWeightsShifted(params, weights) ==
    [i \in 1..Len(params) |-> weights[(i % Len(weights)) + 1]]

\* for i, v in enumerate(self.d_params): v.assign(self.weightsD[i])
CopyWeights(params, weights) == [i \in 1..Len(params) |-> weights[i]]

\* Mutant of LogDue: the step is counted from 1.
LogDueFromOne(s, every) == (s + 1) % every = 0

\* step % self.log_every == 0
LogDue(s, every) == s % every = 0

\* _samples(session): the decision boundary is a function of the
\* discriminator, the generated histogram of the generator, the data
\* histogram of a fresh data sample (pd names the draw it came from).
Frame(d, g, pd) == [db |-> d, pd |-> pd, pg |-> g]

\* ------------------------------------------------------------ GAN.train
\* GAN._samples has not been entered.
SamplesIdle ==
    /\ s_pc = "idle" /\ num_points = 0 /\ batch_size = 1 /\ s_i = 0
    /\ db = <<>> /\ g_out = <<>> /\ runs_D1 = <<>> /\ runs_G = <<>>

\* The session after tf.global_variables_initializer().run(), and the locals
\* of GAN.train before its first statement.
InitSession ==
    /\ pc = "pretrain"
    /\ step = -1
    /\ d_pre_params = InitParams(0)
    /\ g_params = InitParams(1)
    /\ d_params = InitParams(2)
    /\ adamM = [o \in Optimizers |-> Zeros]
    /\ adamT = [o \in Optimizers |-> 0]
    /\ \E seed \in 0..MaxSeed : rng = [s |-> seed, n |-> 0]
    /\ x = NoBatch /\ z = NoBatch
    /\ weightsD = <<>> /\ weightsG = <<>> /\ self_weightsD = <<>>
    /\ loss_d = -1 /\ loss_g = -1
    /\ printed = <<>> /\ anim_frames = <<>>
    /\ shown = [kind |-> "none", frames |-> <<>>]
    /\ grad_fetched = [d |-> Zeros, g |-> Zeros, at_d |-> <<>>, at_g |-> <<>>]
    /\ grad_applied = [d |-> Zeros, g |-> Zeros]
    /\ feeds = [d |-> [z |-> NoBatch, at |-> 0], g |-> [z |-> NoBatch, at |-> 0]]

\* The state after GAN.__init__, on entry to GAN.train.
Init ==
    /\ eg \in BOOLEAN
    /\ num_steps \in 0..MaxSteps
    /\ log_every \in 1..MaxLogEvery
    /\ anim_path \in {NoPath, "anim.mp4"}
    /\ InitSession
    /\ SamplesIdle

\* num_pretrain_steps = 0: the pretraining loop body never runs.
Pretrain ==
    /\ pc = "pretrain"
    /\ pc' = "read_pre"
    /\ UNCHANGED <<cfgVars, tfVars, step, rng, localVars, outVars, obsVars, sampleVars>>

\* self.weightsD = session.run(self.d_pre_params)
ReadPreWeights ==
    /\ pc = "read_pre"
    /\ self_weightsD' = Snapshot(d_pre_params)
    /\ pc' = "copy_weights"
    /\ UNCHANGED <<cfgVars, tfVars, step, rng, x, z, weightsD, weightsG,
                   loss_d, loss_g, outVars, obsVars, sampleVars>>

\* copy weights from pre-training over to new D network
CopyPreWeights ==
    /\ pc = "copy_weights"
    /\ d_params' = CopyWeights(d_params, self_weightsD)
    /\ pc' = "loop"
    /\ UNCHANGED <<cfgVars, d_pre_params, g_params, adamM, adamT, step, rng,
                   localVars, outVars, obsVars, sampleVars>>

\* for step in xrange(self.num_steps), in either branch of self.eg == True
LoopHead(first) ==
    /\ pc = "loop"
    /\ IF step + 1 < num_steps
       THEN /\ step' = step + 1
            /\ pc' = first
       ELSE /\ step' = step
            /\ pc' = "finish"
    /\ UNCHANGED <<cfgVars, tfVars, rng, localVars, outVars, obsVars, sampleVars>>

\* x = self.data.sample(...); z = self.gen.sample(...)
SampleBatches(from, to) ==
    /\ pc = from
    /\ x' = RngDraw(rng)
    /\ z' = RngDraw(RngAdvance(rng))
    /\ rng' = RngAdvance(RngAdvance(rng))
    /\ pc' = to
    /\ UNCHANGED <<cfgVars, tfVars, step, weightsD, weightsG, self_weightsD,
                   loss_d, loss_g, outVars, obsVars, sampleVars>>

\* if step % self.log_every == 0: print('{}: {}\t{}'.format(step, loss_d, loss_g))
LogStep(from, to) ==
    /\ pc = from
    /\ printed' = IF LogDue(step, log_every)
                  THEN Append(printed, <<step, loss_d, loss_g>>)
                  ELSE printed
    /\ pc' = to
    /\ UNCHANGED <<cfgVars, tfVars, step, rng, localVars, anim_frames, shown,
                   obsVars, sampleVars>>

\* Mutant of CaptureFrame: the frame replaces the list instead of being
\* appended to it.
CaptureFrameOverwrite(from) ==
    /\ pc = from
    /\ IF anim_path # NoPath
       THEN /\ anim_frames' = <<Frame(d_params, g_params, RngDraw(rng))>>
            /\ rng' = RngAdvance(rng)
       ELSE UNCHANGED <<anim_frames, rng>>
    /\ pc' = "loop"
    /\ UNCHANGED <<cfgVars, tfVars, step, localVars, printed, shown, obsVars,
                   sampleVars>>

\* if self.anim_path: self.anim_frames.append(self._samples(session))
CaptureFrame(from) ==
    /\ pc = from
    /\ IF anim_path # NoPath
       THEN /\ anim_frames' = Append(anim_frames,
                                      Frame(d_params, g_params, RngDraw(rng)))
            /\ rng' = RngAdvance(rng)
       ELSE UNCHANGED <<anim_frames, rng>>
    /\ pc' = "loop"
    /\ UNCHANGED <<cfgVars, tfVars, step, localVars, printed, shown, obsVars,
                   sampleVars>>

\* ------------------------------------------- the extragradient branch
EgLoopHead == eg /\ LoopHead("eg_sample1")

EgSample1 == SampleBatches("eg_sample1", "eg_snapshot")

\* Save original state
EgSnapshot ==
    /\ pc = "eg_snapshot"
    /\ weightsD' = Snapshot(d_params)
    /\ weightsG' = Snapshot(g_params)
    /\ pc' = "eg_trial_compute"
    /\ UNCHANGED <<cfgVars, tfVars, step, rng, x, z, self_weightsD, loss_d,
                   loss_g, outVars, obsVars, sampleVars>>

\* GAN.compute_gradients: the gradient tensors are evaluated and the values
\* returned by session.run are dropped; no variable is written.
ComputeGradients(from, to) ==
    /\ pc = from
    /\ grad_fetched' = [d |-> FetchGradD(d_params, g_params, x.val, z.val),
                        g |-> FetchGradG(d_params, g_params, z.val),
                        at_d |-> d_params, at_g |-> g_params]
    /\ pc' = to
    /\ UNCHANGED <<cfgVars, tfVars, step, rng, localVars, outVars, grad_applied,
                   feeds, sampleVars>>

\* GAN.apply_gradients: one run of loss_d, loss_g, apply_grad_d and
\* apply_grad_g.  The apply ops take their gradients from the tensors of
\* self.grad_d and self.grad_g, evaluated in this run.
ApplyGradients(from, to) ==
    /\ pc = from
    /\ \E seen \in SUBSET Pos :
          LET rd == ApplyD(d_params, g_params, x.val, z.val,
                           adamM["opt_d"], adamT["opt_d"])
              rg == ApplyG(d_params, g_params,
                           ReadDuringApply(d_params, rd.p, seen), z.val,
                           adamM["opt_g"], adamT["opt_g"])
          IN /\ d_params' = rd.p
             /\ g_params' = rg.p
             /\ adamM' = [adamM EXCEPT !["opt_d"] = rd.m, !["opt_g"] = rg.m]
             /\ grad_applied' = [d |-> rd.gr, g |-> rg.gr]
    /\ adamT' = [adamT EXCEPT !["opt_d"] = @ + 1, !["opt_g"] = @ + 1]
    /\ loss_d' = LossD(d_params, g_params, x.val, z.val)
    /\ loss_g' = LossG(d_params, g_params, z.val)
    /\ feeds' = [d |-> [z |-> z, at |-> rng.n], g |-> [z |-> z, at |-> rng.n]]
    /\ pc' = to
    /\ UNCHANGED <<cfgVars, d_pre_params, step, rng, x, z, weightsD, weightsG,
                   self_weightsD, outVars, grad_fetched, sampleVars>>

\* Descend a step
EgTrialCompute == ComputeGradients("eg_trial_compute", "eg_trial_apply")

EgTrialApply == ApplyGradients("eg_trial_apply", "eg_sample2")

EgSample2 == SampleBatches("eg_sample2", "eg_lookahead_compute")

\* Compute descent at lookahead step
EgLookaheadCompute == ComputeGradients("eg_lookahead_compute", "eg_reassign_d")

\* Mutant of EgReassignD: the restore also resets the optimizer's slots.
EgReassignDResetSlots ==
    /\ pc = "eg_reassign_d"
    /\ d_params' = Reassign(d_params, weightsD)
    /\ adamM' = [adamM EXCEPT !["opt_d"] = Zeros]
    /\ adamT' = [adamT EXCEPT !["opt_d"] = 0]
    /\ pc' = "eg_reassign_g"
    /\ UNCHANGED <<cfgVars, d_pre_params, g_params, step, rng,
                   localVars, outVars, obsVars, sampleVars>>

\* Reassign original state
EgReassignD ==
    /\ pc = "eg_reassign_d"
    /\ d_params' = Reassign(d_params, weightsD)
    /\ pc' = "eg_reassign_g"
    /\ UNCHANGED <<cfgVars, d_pre_params, g_params, adamM, adamT, step, rng,
                   localVars, outVars, obsVars, sampleVars>>

\* Mutant of EgReassignG: the generator is not restored.
EgReassignGSkipped ==
    /\ pc = "eg_reassign_g"
    /\ pc' = "eg_final_apply"
    /\ UNCHANGED <<cfgVars, tfVars, step, rng, localVars, outVars, obsVars,
                   sampleVars>>

EgReassignG ==
    /\ pc = "eg_reassign_g"
    /\ g_params' = Reassign(g_params, weightsG)
    /\ pc' = "eg_final_apply"
    /\ UNCHANGED <<cfgVars, d_pre_params, d_params, adamM, adamT, step, rng,
                   localVars, outVars, obsVars, sampleVars>>

\* Apply lookahead gradient
EgFinalApply == ApplyGradients("eg_final_apply", "eg_log")

EgLog == LogStep("eg_log", "eg_frame")

EgFrame == CaptureFrame("eg_frame")

\* ----------------------------------------------- the standard branch
StdLoopHead == ~eg /\ LoopHead("std_sample")

StdSample == SampleBatches("std_sample", "std_update_d")

\* Mutant of StdUpdateD: minimize() without a var_list updates every
\* trainable variable, the generator's too.
StdUpdateDAllVars ==
    /\ pc = "std_update_d"
    /\ LET rd == ApplyD(d_params, g_params, x.val, z.val,
                        adamM["opt_d_min"], adamT["opt_d_min"])
       IN /\ d_params' = rd.p
          /\ g_params' = [i \in Pos |-> AdamUpdate(g_params[i], rd.m[i])]
          /\ adamM' = [adamM EXCEPT !["opt_d_min"] = rd.m]
          /\ grad_applied' = [grad_applied EXCEPT !.d = rd.gr]
    /\ adamT' = [adamT EXCEPT !["opt_d_min"] = @ + 1]
    /\ loss_d' = LossD(d_params, g_params, x.val, z.val)
    /\ feeds' = [feeds EXCEPT !.d = [z |-> z, at |-> rng.n]]
    /\ pc' = "std_sample_z"
    /\ UNCHANGED <<cfgVars, d_pre_params, step, rng, x, z, weightsD,
                   weightsG, self_weightsD, loss_g, outVars, grad_fetched,
                   sampleVars>>

\* loss_d, _ = session.run([self.loss_d, self.opt_d_min], {x, z})
StdUpdateD ==
    /\ pc = "std_update_d"
    /\ LET rd == ApplyD(d_params, g_params, x.val, z.val,
                        adamM["opt_d_min"], adamT["opt_d_min"])
       IN /\ d_params' = rd.p
          /\ adamM' = [adamM EXCEPT !["opt_d_min"] = rd.m]
          /\ grad_applied' = [grad_applied EXCEPT !.d = rd.gr]
    /\ adamT' = [adamT EXCEPT !["opt_d_min"] = @ + 1]
    /\ loss_d' = LossD(d_params, g_params, x.val, z.val)
    /\ feeds' = [feeds EXCEPT !.d = [z |-> z, at |-> rng.n]]
    /\ pc' = "std_sample_z"
    /\ UNCHANGED <<cfgVars, d_pre_params, g_params, step, rng, x, z, weightsD,
                   weightsG, self_weightsD, loss_g, outVars, grad_fetched,
                   sampleVars>>

\* Mutant of StdSampleZ: no fresh noise batch is drawn.
StdSampleZStale ==
    /\ pc = "std_sample_z"
    /\ pc' = "std_update_g"
    /\ UNCHANGED <<cfgVars, tfVars, step, rng, localVars, outVars, obsVars,
                   sampleVars>>

\* z = self.gen.sample(self.batch_size)
StdSampleZ ==
    /\ pc = "std_sample_z"
    /\ z' = RngDraw(rng)
    /\ rng' = RngAdvance(rng)
    /\ pc' = "std_update_g"
    /\ UNCHANGED <<cfgVars, tfVars, step, x, weightsD, weightsG, self_weightsD,
                   loss_d, loss_g, outVars, obsVars, sampleVars>>

\* loss_g, _ = session.run([self.loss_g, self.opt_g_min], {z})
StdUpdateG ==
    /\ pc = "std_update_g"
    /\ LET rg == ApplyG(d_params, g_params, d_params, z.val,
                        adamM["opt_g_min"], adamT["opt_g_min"])
       IN /\ g_params' = rg.p
          /\ adamM' = [adamM EXCEPT !["opt_g_min"] = rg.m]
          /\ grad_applied' = [grad_applied EXCEPT !.g = rg.gr]
    /\ adamT' = [adamT EXCEPT !["opt_g_min"] = @ + 1]
    /\ loss_g' = LossG(d_params, g_params, z.val)
    /\ feeds' = [feeds EXCEPT !.g = [z |-> z, at |-> rng.n]]
    /\ pc' = "std_log"
    /\ UNCHANGED <<cfgVars, d_pre_params, d_params, step, rng, x, z, weightsD,
                   weightsG, self_weightsD, loss_d, outVars, grad_fetched,
                   sampleVars>>

StdLog == LogStep("std_log", "std_frame")

StdFrame == CaptureFrame("std_frame")

\* ------------------------------------------------------ after the loop
\* _save_animation: self.anim_frames[0] raises IndexError on an empty list;
\* otherwise every frame is drawn and the animation saved.
SaveAnimation ==
    /\ pc = "finish"
    /\ anim_path # NoPath
    /\ shown' = IF anim_frames = <<>>
                THEN [kind |-> "IndexError", frames |-> <<>>]
                ELSE [kind |-> "animation", frames |-> anim_frames]
    /\ pc' = "done"
    /\ UNCHANGED <<cfgVars, tfVars, step, rng, localVars, printed, anim_frames,
                   obsVars, sampleVars>>

\* _plot_distributions: one more _samples call, plotted.
PlotDistributions ==
    /\ pc = "finish"
    /\ anim_path = NoPath
    /\ shown' = [kind |-> "plot",
                 frames |-> <<Frame(d_params, g_params, RngDraw(rng))>>]
    /\ rng' = RngAdvance(rng)
    /\ pc' = "done"
    /\ UNCHANGED <<cfgVars, tfVars, step, localVars, printed, anim_frames,
                   obsVars, sampleVars>>

Next ==
    \/ Pretrain \/ ReadPreWeights \/ CopyPreWeights
    \/ EgLoopHead \/ EgSample1 \/ EgSnapshot \/ EgTrialCompute \/ EgTrialApply
    \/ EgSample2 \/ EgLookaheadCompute \/ EgReassignD \/ EgReassignG
    \/ EgFinalApply \/ EgLog \/ EgFrame
    \/ StdLoopHead \/ StdSample \/ StdUpdateD \/ StdSampleZ \/ StdUpdateG
    \/ StdLog \/ StdFrame
    \/ SaveAnimation \/ PlotDistributions

Spec == Init /\ [][Next]_vars

\* ---------------------------------------------------------- GAN._samples
\* np.linspace(-range, range, num_points): the grid, each point named by its
\* place.
Grid(n) == [p \in 1..n |-> p]

\* np.zeros((num_points, 1))
ZeroColumn(n) == [p \in 1..n |-> 0]

\* a[lo:hi] of Python (places counted from 0, hi cut to the length).
Slice(a, lo, hi) ==
    SubSeq(a, lo + 1, IF hi < Len(a) THEN hi ELSE Len(a))

\* Mutant of NumChunks: the division rounds up.
NumChunksCeil(n, b) == (n + b - 1) \div b

\* range(num_points // self.batch_size)
NumChunks(n, b) == n \div b

\* session.run(self.D1, {self.x: chunk}): the (ReLU) score of every fed point.
RunD1(d, chunk) == [k \in 1..Len(chunk) |-> (Sum(d) + chunk[k]) % 3]

\* session.run(self.G, {self.z: chunk}): the generator's output per point.
RunG(g, chunk) == [k \in 1..Len(chunk) |-> ((Sum(g) + 2 * chunk[k]) % 3) - 1]

\* a[lo:lo + len(vals)] = vals
AssignSlice(a, lo, vals) ==
    [p \in 1..Len(a) |-> IF p > lo /\ p <= lo + Len(vals) THEN vals[p - lo] ELSE a[p]]

\* A call _samples(session) on an initialized session.
SamplesInit ==
    /\ eg = FALSE /\ num_steps = 0 /\ log_every = 1 /\ anim_path = NoPath
    /\ InitSession
    /\ s_pc = "enter"
    /\ num_points \in 1..MaxNumPoints
    /\ batch_size \in 1..MaxBatchSize
    /\ s_i = 0
    /\ db = <<>> /\ g_out = <<>> /\ runs_D1 = <<>> /\ runs_G = <<>>

\* db = np.zeros((num_points, 1))
SamplesEnter ==
    /\ s_pc = "enter"
    /\ db' = ZeroColumn(num_points)
    /\ s_i' = 0
    /\ s_pc' = "db_loop"
    /\ UNCHANGED <<cfgVars, tfVars, trainVars, num_points, batch_size, g_out,
                   runs_D1, runs_G>>

\* One pass of the decision-boundary loop.  np.reshape(chunk, (batch_size, 1))
\* raises ValueError unless the chunk holds batch_size points.
SamplesDbChunk ==
    /\ s_pc = "db_loop"
    /\ s_i < NumChunks(num_points, batch_size)
    /\ LET chunk == Slice(Grid(num_points), batch_size * s_i, batch_size * (s_i + 1))
       IN IF Len(chunk) = batch_size
          THEN /\ db' = AssignSlice(db, batch_size * s_i, RunD1(d_params, chunk))
               /\ runs_D1' = Append(runs_D1, chunk)
               /\ s_i' = s_i + 1
               /\ s_pc' = "db_loop"
          ELSE /\ s_pc' = "ValueError"
               /\ UNCHANGED <<db, runs_D1, s_i>>
    /\ UNCHANGED <<cfgVars, tfVars, trainVars, num_points, batch_size, g_out, runs_G>>

\* d = self.data.sample(num_points); g = np.zeros((num_points, 1))
SamplesData ==
    /\ s_pc = "db_loop"
    /\ s_i >= NumChunks(num_points, batch_size)
    /\ rng' = RngAdvance(rng)
    /\ g_out' = ZeroColumn(num_points)
    /\ s_i' = 0
    /\ s_pc' = "g_loop"
    /\ UNCHANGED <<cfgVars, tfVars, pc, step, localVars, outVars, obsVars,
                   num_points, batch_size, db, runs_D1, runs_G>>

\* One pass of the generated-samples loop.
SamplesGChunk ==
    /\ s_pc = "g_loop"
    /\ s_i < NumChunks(num_points, batch_size)
    /\ LET chunk == Slice(Grid(num_points), batch_size * s_i, batch_size * (s_i + 1))
       IN IF Len(chunk) = batch_size
          THEN /\ g_out' = AssignSlice(g_out, batch_size * s_i, RunG(g_params, chunk))
               /\ runs_G' = Append(runs_G, chunk)
               /\ s_i' = s_i + 1
               /\ s_pc' = "g_loop"
          ELSE /\ s_pc' = "ValueError"
               /\ UNCHANGED <<g_out, runs_G, s_i>>
    /\ UNCHANGED <<cfgVars, tfVars, trainVars, num_points, batch_size, db, runs_D1>>

\* return db, pd, pg
SamplesReturn ==
    /\ s_pc = "g_loop"
    /\ s_i >= NumChunks(num_points, batch_size)
    /\ s_pc' = "done"
    /\ UNCHANGED <<cfgVars, tfVars, trainVars, num_points, batch_size, s_i, db,
                   g_out, runs_D1, runs_G>>

SamplesNext ==
    \/ SamplesEnter \/ SamplesDbChunk \/ SamplesData \/ SamplesGChunk
    \/ SamplesReturn

SamplesSpec == SamplesInit /\ [][SamplesNext]_vars

\* ================================================================ claims
EgBeforeTrialApply == {"eg_sample1", "eg_snapshot", "eg_trial_compute", "eg_trial_apply"}
EgBeforeFinalApply ==
    {"eg_sample2", "eg_lookahead_compute", "eg_reassign_d", "eg_reassign_g",
     "eg_final_apply"}
EgApplyPcs == {"eg_trial_apply", "eg_final_apply"}
BetweenSteps == {"pretrain", "read_pre", "copy_weights", "loop", "finish", "done"}

\* C1: in every extragradient step, the gradients the final apply uses are
\* the ones evaluated at the trial point on the second batch (the ones the
\* lookahead compute_gradients call fetched), not gradients evaluated anew at
\* the restored parameters.
C1_FinalApplyUsesLookaheadGradients ==
    pc = "eg_log" =>
        /\ grad_applied.d = grad_fetched.d
        /\ grad_applied.g = grad_fetched.g

\* C2: the snapshot holds the parameter values of the start of the step until
\* the restore, and right after the restore every discriminator and generator
\* parameter equals the snapshot's value at its position, whatever the trial
\* update did in between.
C2_SnapshotRestoreExact ==
    /\ [](/\ pc = "eg_trial_compute" =>
                weightsD = d_params /\ weightsG = g_params
          /\ pc = "eg_final_apply" =>
                \A i \in Pos : /\ d_params[i] = weightsD[i]
                               /\ g_params[i] = weightsG[i])
    /\ [][(pc \in EgBeforeTrialApply \cup EgBeforeFinalApply
             /\ pc \notin {"eg_sample1", "eg_snapshot"})
            => (weightsD' = weightsD /\ weightsG' = weightsG)]_vars

C2_Witness ==
    /\ pc = "eg_final_apply"
    /\ step = 0
    /\ adamM["opt_d"][1] # 0
    /\ adamM["opt_g"][1] # 0
    /\ d_params = weightsD
    /\ g_params = weightsG

\* C3: in every step of the standard loop the discriminator is updated once,
\* then the generator once, the generator's update is fed a noise batch drawn
\* after the discriminator's update (another batch than the one that update
\* was fed), and a step starts only when the generator update of the step
\* before is done.
C3_StandardStepOrder ==
    ~eg =>
        /\ pc \in {"std_sample", "std_update_d"} =>
              adamT["opt_d_min"] = step /\ adamT["opt_g_min"] = step
        /\ pc \in {"std_sample_z", "std_update_g"} =>
              adamT["opt_d_min"] = step + 1 /\ adamT["opt_g_min"] = step
        /\ pc \in {"std_log", "std_frame", "loop", "finish", "done"} =>
              adamT["opt_d_min"] = step + 1 /\ adamT["opt_g_min"] = step + 1
        /\ pc \in {"std_log", "std_frame"} =>
              /\ feeds.g.z.id >= feeds.d.at
              /\ feeds.g.z.id # feeds.d.z.id

C3_Witness ==
    /\ ~eg
    /\ pc = "std_log"
    /\ step = 1
    /\ adamT["opt_d_min"] = 2
    /\ adamT["opt_g_min"] = 2
    /\ feeds.g.z.id > feeds.d.z.id

\* C4: a parameter set is changed only by its own optimizer: the standard
\* loop's discriminator update leaves the generator alone and its generator
\* update leaves the discriminator alone; in the extragradient apply each set
\* moves by its own optimizer's update; the pretrain set never changes; and
\* apart from the updates only the pretrain transfer (discriminator) and the
\* snapshot restore change a set.
C4_ScopeFrame ==
    [][/\ d_pre_params' = d_pre_params
       /\ d_params' # d_params =>
             pc \in EgApplyPcs \cup {"std_update_d", "copy_weights", "eg_reassign_d"}
       /\ g_params' # g_params =>
             pc \in EgApplyPcs \cup {"std_update_g", "eg_reassign_g"}
       /\ pc = "std_update_d" =>
             /\ g_params' = g_params
             /\ \A i \in Pos : d_params'[i] = AdamUpdate(d_params[i], adamM'["opt_d_min"][i])
       /\ pc = "std_update_g" =>
             /\ d_params' = d_params
             /\ \A i \in Pos : g_params'[i] = AdamUpdate(g_params[i], adamM'["opt_g_min"][i])
       /\ pc \in EgApplyPcs =>
             \A i \in Pos :
                /\ d_params'[i] = AdamUpdate(d_params[i], adamM'["opt_d"][i])
                /\ g_params'[i] = AdamUpdate(g_params[i], adamM'["opt_g"][i])
      ]_vars

C4_Witness ==
    /\ pc = "std_sample_z"
    /\ step = 0
    /\ d_params # self_weightsD
    /\ g_params = InitParams(1)
    /\ d_pre_params = InitParams(0)

\* C5: the pretrain weights are copied into the discriminator once per run,
\* after the pretraining phase and before any adversarial update, never again;
\* right after the copy discriminator parameter i equals pretrain parameter i.
C5_TransferOnce ==
    /\ [](pc = "loop" /\ step = -1 =>
             \A i \in Pos : d_params[i] = d_pre_params[i])
    /\ [][/\ pc' = "copy_weights" => pc = "read_pre"
          /\ pc' = "read_pre" => pc = "pretrain"
          /\ pc' # "pretrain"
          /\ pc = "copy_weights" =>
                /\ step = -1
                /\ \A o \in Optimizers : adamT[o] = 0
         ]_vars

C5_Witness ==
    /\ pc = "loop"
    /\ step = -1
    /\ d_params = d_pre_params
    /\ d_params # InitParams(2)

\* The steps whose logging statement has been passed.
LoggedSteps == IF pc \in BetweenSteps \cup {"eg_frame", "std_frame"} THEN step + 1 ELSE step

\* C6: a line with the step index and the step's two losses is printed at a
\* step exactly when the index is a multiple of log_every, in step order; a
\* run of N steps with log_every = 1 prints N lines.
C6_LogLines ==
    /\ Len(printed) = Cardinality({st \in 0..(LoggedSteps - 1) : st % log_every = 0})
    /\ \A k \in 1..Len(printed) : printed[k][1] = (k - 1) * log_every
    /\ pc \in {"eg_frame", "std_frame"} /\ step % log_every = 0 =>
          printed[Len(printed)] = <<step, loss_d, loss_g>>
    /\ pc = "done" /\ log_every = 1 => Len(printed) = num_steps

C6_Witness ==
    /\ pc = "done"
    /\ num_steps = 2
    /\ log_every = 2
    /\ Len(printed) = 1
    /\ printed[1][1] = 0

\* The steps whose frame statement has been passed.
CompletedSteps == IF pc \in BetweenSteps THEN step + 1 ELSE step

\* C7: with an animation path one frame is appended per completed step (k
\* frames after k steps) and no earlier frame is changed or removed; the
\* frames are read only after the last step; without a path there is never
\* a frame.
C7_Frames ==
    /\ [](/\ anim_path # NoPath => Len(anim_frames) = CompletedSteps
          /\ anim_path = NoPath => anim_frames = <<>>
          /\ shown.kind \in {"animation", "IndexError"} =>
                /\ pc = "done"
                /\ CompletedSteps = num_steps
                /\ shown.frames = anim_frames)
    /\ [][/\ Len(anim_frames') >= Len(anim_frames)
          /\ SubSeq(anim_frames', 1, Len(anim_frames)) = anim_frames]_vars

C7_Witness ==
    /\ pc = "done"
    /\ shown.kind = "animation"
    /\ Len(shown.frames) = 2
    /\ shown.frames[1] # shown.frames[2]

\* C8 as stated: after one full extragradient step the live discriminator and
\* generator parameters differ from the snapshot and from the trial-step
\* values (the point the lookahead gradients were fetched at).
C8_LiveDiffersFromSnapshotAndTrial ==
    pc = "eg_log" =>
        /\ d_params # weightsD
        /\ g_params # weightsG
        /\ d_params # grad_fetched.at_d
        /\ g_params # grad_fetched.at_g

\* C8 as amended: after one full extragradient step every live parameter is
\* its snapshot value moved by the final apply's Adam update alone; where the
\* optimizer's first moment is zero the parameter equals its snapshot value.
C8_LiveIsSnapshotPlusFinalUpdate ==
    pc = "eg_log" =>
        \A i \in Pos :
           /\ d_params[i] = AdamUpdate(weightsD[i], adamM["opt_d"][i])
           /\ g_params[i] = AdamUpdate(weightsG[i], adamM["opt_g"][i])
           /\ adamM["opt_d"][i] = 0 => d_params[i] = weightsD[i]
           /\ adamM["opt_g"][i] = 0 => g_params[i] = weightsG[i]

C8_Witness ==
    /\ pc = "eg_log"
    /\ g_params = weightsG
    /\ d_params # weightsD
    /\ grad_fetched.at_d # weightsD

\* C9: _samples evaluates the discriminator and the generator on
\* floor(num_points / batch_size) consecutive chunks of batch_size grid
\* points; the last num_points mod batch_size points are never fed, no error
\* is raised, and their entries of the outputs stay 0.
C9_FullChunksOnly ==
    /\ s_pc # "ValueError"
    /\ s_pc = "done" =>
          LET n == num_points \div batch_size
          IN /\ Len(runs_D1) = n
             /\ Len(runs_G) = n
             /\ \A k \in 1..n :
                   /\ runs_D1[k] = [j \in 1..batch_size |-> batch_size * (k - 1) + j]
                   /\ runs_G[k] = runs_D1[k]
             /\ \A q \in 1..num_points :
                   q > batch_size * n =>
                      /\ db[q] = 0
                      /\ g_out[q] = 0
                      /\ \A k \in 1..n, j \in 1..batch_size : runs_D1[k][j] # q

C9_Witness ==
    /\ s_pc = "done"
    /\ num_points % batch_size # 0
    /\ Len(runs_D1) >= 1
    /\ \E q \in 1..num_points : db[q] # 0

\* C10: the restore assigns the parameters only: the optimizers' moments and
\* update counts written by the trial apply are still there at the final
\* apply, and each optimizer makes two updates per extragradient step.
C10_OptimizerStateNotRestored ==
    /\ [](eg =>
            \A o \in {"opt_d", "opt_g"} :
               /\ pc \in EgBeforeTrialApply => adamT[o] = 2 * step
               /\ pc \in EgBeforeFinalApply => adamT[o] = 2 * step + 1
               /\ pc \in {"eg_log", "eg_frame"} => adamT[o] = 2 * step + 2
               /\ pc \in {"loop", "finish", "done"} => adamT[o] = 2 * (step + 1))
    /\ [][(pc \in EgBeforeFinalApply /\ pc # "eg_final_apply")
            => (adamM' = adamM /\ adamT' = adamT)]_vars

C10_Witness ==
    /\ pc = "eg_final_apply"
    /\ step = 1
    /\ adamT["opt_d"] = 3
    /\ adamM["opt_d"] # Zeros
    /\ adamM["opt_g"] # Zeros
    /\ d_params = weightsD

=============================================================================
